---- MODULE Spec2Model ----
(***************************************************************************)
(* A model of the compatibility-matrix repository:                         *)
(*   - the in-memory cache gate of backend/api_server.py and its three     *)
(*     HTTP handlers, at the granularity of the reads and writes of the    *)
(*     shared `cache` dictionary (Spec: the handlers of concurrent         *)
(*     requests interleave; SeqSpec: one request is served at a time);     *)
(*   - the conversion runs of db_to_json.py, scripts/db_to_json.py,        *)
(*     scripts/excel_to_json.py and scripts/convert_compatibility.py, from *)
(*     loading the records to the upload of the document (PipeSpec);       *)
(*   - update_config_file of scripts/conversion_utils.py over the text of  *)
(*     config.py (PatchSpec);                                              *)
(*   - execute_query of db_config.py inside get_db_connection (DbSpec);    *)
(*   - the two create_model_id implementations over the names of a model   *)
(*     registry (IdSpec).                                                  *)
(***************************************************************************)
EXTENDS Integers, Sequences, FiniteSets, TLC

VARIABLES
    \* ---- backend/api_server.py ----
    cache,         \* the module-level dict: [data, timestamp, ttl]
    now,           \* time.time(), in seconds since the server started
    ticks,         \* how often the clock has advanced (bounds the run)
    pc,            \* per handler thread: the statement it is about to run
    op,            \* per handler thread: the route it serves / served last
    current_time,  \* get_cached_data's local current_time
    data,          \* get_cached_data's local data (the fetch result)
    resp,          \* the HTTP response of the thread's last request
    pairedTs,      \* history: the timestamp that belongs to cache.data
    call,          \* history (SeqSpec): the request being served / served last
    lastOp,        \* history (SeqSpec): the route that completed last
    lastGood,      \* history (SeqSpec): when the cache was last refreshed
    \* ---- db_to_json.py, scripts/db_to_json.py ----
    run            \* one conversion run

serverVars == <<cache, now, ticks, pc, op, current_time, data, resp, pairedTs>>
history == <<call, lastOp, lastGood>>
vars == <<serverVars, history, run>>

(***************************************************************************)
(* Python's None and a present value.                                      *)
(***************************************************************************)
None == <<>>
Some(x) == <<x>>

\* ------------------------------------------------------------------------
\* Bounds of the model
\* ------------------------------------------------------------------------
MaxHandlers == 2
MaxDocs == 2
MaxTicks == 2

\* CACHE_TTL = int(os.getenv('CACHE_TTL_SECONDS', '300'))
CACHE_TTL == 300

Handlers == 1..MaxHandlers
Docs == 1..MaxDocs
\* The clock advances by one second, or jumps to just below / onto the TTL.
TickSteps == {1, CACHE_TTL - 1, CACHE_TTL}

NoResp == [code |-> 0, body |-> None]

ServerInit ==
    /\ cache = [data |-> None, timestamp |-> None, ttl |-> CACHE_TTL]
    /\ now = 0
    /\ ticks = 0
    /\ pc = [t \in Handlers |-> "idle"]
    /\ op = [t \in Handlers |-> "none"]
    /\ current_time = [t \in Handlers |-> 0]
    /\ data = [t \in Handlers |-> None]
    /\ resp = [t \in Handlers |-> NoResp]
    /\ pairedTs = None
    /\ call = [pre |-> cache, at |-> 0, prevOp |-> "none", lastGood |-> None,
               attempts |-> 0, outcome |-> "none"]
    /\ lastOp = "none"
    /\ lastGood = None

\* time.time() moves on between any two statements.
Tick ==
    /\ ticks < MaxTicks
    /\ \E d \in TickSteps : now' = now + d
    /\ ticks' = ticks + 1
    /\ UNCHANGED <<cache, pc, op, current_time, data, resp, pairedTs, run>>

\* A request arrives at thread t and the handler for `route` starts.
Begin(t, route, first) ==
    /\ pc[t] = "idle"
    /\ pc' = [pc EXCEPT ![t] = first]
    /\ op' = [op EXCEPT ![t] = route]
    /\ resp' = [resp EXCEPT ![t] = NoResp]

\* The handler of thread t returns `code` and `body`; its locals are gone.
Respond(t, code, body) ==
    /\ pc' = [pc EXCEPT ![t] = "idle"]
    /\ resp' = [resp EXCEPT ![t] = [code |-> code, body |-> body]]
    /\ current_time' = [current_time EXCEPT ![t] = 0]
    /\ data' = [data EXCEPT ![t] = None]

\* ------------------------------------------------------------------------
\* GET /api/compatibility: get_compatibility calling get_cached_data
\* ------------------------------------------------------------------------

\* What fetch_from_s3 can return: None (no client, ClientError, any other
\* error of the download or the JSON decoding) or the decoded document.
fetch_from_s3 == {None} \cup {Some(d) : d \in Docs}

\* Mutant of IsFresh: an entry whose age equals the TTL still counts as fresh.
IsFresh_Inclusive(ct, ts, ttl) == (ct - ts) <= ttl

\* The freshness test of get_cached_data, on values already read.
IsFresh(ct, ts, ttl) == (ct - ts) < ttl

\* Mutant of CompatibilityResponse: the `data is None` test is missing.
CompatibilityResponse_NoNoneCheck(result) == [code |-> 200, body |-> result]

\* The status and body get_compatibility builds from get_cached_data's result.
CompatibilityResponse(result) ==
    IF result = None THEN [code |-> 503, body |-> None]
                     ELSE [code |-> 200, body |-> result]

\* current_time = time.time()
GetBegin(t) ==
    /\ Begin(t, "get", "chk_data")
    /\ current_time' = [current_time EXCEPT ![t] = now]
    /\ UNCHANGED <<cache, now, ticks, data, pairedTs, run>>

\* cache['data'] is not None
GetCheckData(t) ==
    /\ pc[t] = "chk_data"
    /\ pc' = [pc EXCEPT ![t] = IF cache.data # None THEN "chk_ts" ELSE "fetch"]
    /\ UNCHANGED <<cache, now, ticks, op, current_time, data, resp, pairedTs, run>>

\* cache['timestamp'] is not None
GetCheckTs(t) ==
    /\ pc[t] = "chk_ts"
    /\ pc' = [pc EXCEPT ![t] =
                IF cache.timestamp # None THEN "chk_age" ELSE "fetch"]
    /\ UNCHANGED <<cache, now, ticks, op, current_time, data, resp, pairedTs, run>>

\* (current_time - cache['timestamp']) < cache['ttl']: the timestamp is read
\* again; float - None is a TypeError, which get_compatibility's except
\* clause turns into a 500.
GetCheckAge(t) ==
    /\ pc[t] = "chk_age"
    /\ IF cache.timestamp = None
       THEN /\ Respond(t, 500, None)
       ELSE /\ pc' = [pc EXCEPT ![t] =
                        IF IsFresh(current_time[t], cache.timestamp[1], cache.ttl)
                        THEN "ret_hit" ELSE "fetch"]
            /\ UNCHANGED <<resp, current_time, data>>
    /\ UNCHANGED <<cache, now, ticks, op, pairedTs, run>>

\* return cache['data'] (read once more), then the handler's response.
GetReturnHit(t) ==
    /\ pc[t] = "ret_hit"
    /\ LET r == CompatibilityResponse(cache.data)
       IN  Respond(t, r.code, r.body)
    /\ UNCHANGED <<cache, now, ticks, op, pairedTs, run>>

\* Mutant of GetFetch: a failed fetch empties the slot.
GetFetch_ClearsOnFailure(t) ==
    /\ pc[t] = "fetch"
    /\ \E r \in fetch_from_s3 :
          /\ data' = [data EXCEPT ![t] = r]
          /\ pc' = [pc EXCEPT ![t] = IF r # None THEN "upd_data" ELSE "ret_miss"]
          /\ cache' = IF r # None THEN cache
                      ELSE [cache EXCEPT !.data = None, !.timestamp = None]
    /\ UNCHANGED <<now, ticks, op, current_time, resp, pairedTs, run>>

\* data = fetch_from_s3(): the fetch returns a document or None.
GetFetch(t) ==
    /\ pc[t] = "fetch"
    /\ \E r \in fetch_from_s3 :
          /\ data' = [data EXCEPT ![t] = r]
          /\ pc' = [pc EXCEPT ![t] = IF r # None THEN "upd_data" ELSE "ret_miss"]
    /\ UNCHANGED <<cache, now, ticks, op, current_time, resp, pairedTs, run>>

\* get_s3_client() is called outside fetch_from_s3's try block and catches
\* NoCredentialsError only: any other error of boto3.client leaves
\* get_cached_data as an exception, which get_compatibility answers with 500.
GetFetchRaises(t) ==
    /\ pc[t] = "fetch"
    /\ Respond(t, 500, None)
    /\ UNCHANGED <<cache, now, ticks, op, pairedTs, run>>

\* cache['data'] = data
GetUpdateData(t) ==
    /\ pc[t] = "upd_data"
    /\ cache' = [cache EXCEPT !.data = data[t]]
    /\ pairedTs' = Some(current_time[t])
    /\ pc' = [pc EXCEPT ![t] = "upd_ts"]
    /\ UNCHANGED <<now, ticks, op, current_time, data, resp, run>>

\* cache['timestamp'] = current_time
GetUpdateTs(t) ==
    /\ pc[t] = "upd_ts"
    /\ cache' = [cache EXCEPT !.timestamp = Some(current_time[t])]
    /\ pc' = [pc EXCEPT ![t] = "ret_miss"]
    /\ UNCHANGED <<now, ticks, op, current_time, data, resp, pairedTs, run>>

\* Mutant of GetReturnMiss: after a failed fetch the value still held in the
\* slot is returned (fail-open).
GetReturnMiss_FailOpen(t) ==
    /\ pc[t] = "ret_miss"
    /\ LET r == CompatibilityResponse(IF data[t] = None THEN cache.data
                                                         ELSE data[t])
       IN  Respond(t, r.code, r.body)
    /\ UNCHANGED <<cache, now, ticks, op, pairedTs, run>>

\* return data (the local), then the handler's response.
GetReturnMiss(t) ==
    /\ pc[t] = "ret_miss"
    /\ LET r == CompatibilityResponse(data[t])
       IN  Respond(t, r.code, r.body)
    /\ UNCHANGED <<cache, now, ticks, op, pairedTs, run>>

\* ------------------------------------------------------------------------
\* POST /api/cache/clear
\* ------------------------------------------------------------------------
ClearBegin(t) ==
    /\ Begin(t, "clear", "clr_data")
    /\ UNCHANGED <<cache, now, ticks, current_time, data, pairedTs, run>>

\* Mutant of ClearData: the data is not reset.
ClearData_KeepsData(t) ==
    /\ pc[t] = "clr_data"
    /\ pc' = [pc EXCEPT ![t] = "clr_ts"]
    /\ UNCHANGED <<cache, now, ticks, op, current_time, data, resp, pairedTs, run>>

\* cache['data'] = None
ClearData(t) ==
    /\ pc[t] = "clr_data"
    /\ cache' = [cache EXCEPT !.data = None]
    /\ pairedTs' = None
    /\ pc' = [pc EXCEPT ![t] = "clr_ts"]
    /\ UNCHANGED <<now, ticks, op, current_time, data, resp, run>>

\* cache['timestamp'] = None, then the 200 response.
ClearTs(t) ==
    /\ pc[t] = "clr_ts"
    /\ cache' = [cache EXCEPT !.timestamp = None]
    /\ Respond(t, 200, None)
    /\ UNCHANGED <<now, ticks, op, pairedTs, run>>

\* ------------------------------------------------------------------------
\* GET /api/health
\* ------------------------------------------------------------------------
HealthBegin(t) ==
    /\ Begin(t, "health", "h_chk")
    /\ UNCHANGED <<cache, now, ticks, current_time, data, pairedTs, run>>

\* ... if cache['timestamp'] else None: the condition is evaluated first.
\* (time.time() is seconds since 1970, so a timestamp is never falsy.)
HealthCheckTs(t) ==
    /\ pc[t] = "h_chk"
    /\ IF cache.timestamp # None
       THEN /\ pc' = [pc EXCEPT ![t] = "h_age"]
            /\ UNCHANGED <<resp, current_time, data>>
       ELSE /\ Respond(t, 200, None)
    /\ UNCHANGED <<cache, now, ticks, op, pairedTs, run>>

\* int(time.time() - cache['timestamp']): the timestamp is read again; the
\* handler has no try block, so a TypeError becomes Flask's 500.
HealthAge(t) ==
    /\ pc[t] = "h_age"
    /\ IF cache.timestamp = None
       THEN Respond(t, 500, None)
       ELSE Respond(t, 200, Some(now - cache.timestamp[1]))
    /\ UNCHANGED <<cache, now, ticks, op, pairedTs, run>>

\* ------------------------------------------------------------------------
\* The server
\* ------------------------------------------------------------------------
AllIdle == \A t \in Handlers : pc[t] = "idle"

RunOff == run = [pc |-> "off"]

Init == ServerInit /\ RunOff

\* app.run() serves each request in a thread of its own: the statements of
\* concurrent requests interleave.
Concurrent(t) ==
    \/ GetBegin(t) /\ UNCHANGED history
    \/ ClearBegin(t) /\ UNCHANGED history
    \/ HealthBegin(t) /\ UNCHANGED history
    \/ GetCheckData(t) /\ UNCHANGED history
    \/ GetCheckTs(t) /\ UNCHANGED history
    \/ GetCheckAge(t) /\ UNCHANGED history
    \/ GetReturnHit(t) /\ UNCHANGED history
    \/ GetFetch(t) /\ UNCHANGED history
    \/ GetFetchRaises(t) /\ UNCHANGED history
    \/ GetUpdateData(t) /\ UNCHANGED history
    \/ GetUpdateTs(t) /\ UNCHANGED history
    \/ GetReturnMiss(t) /\ UNCHANGED history
    \/ ClearData(t) /\ UNCHANGED history
    \/ ClearTs(t) /\ UNCHANGED history
    \/ HealthCheckTs(t) /\ UNCHANGED history
    \/ HealthAge(t) /\ UNCHANGED history

Next ==
    \/ Tick /\ UNCHANGED history
    \/ \E t \in Handlers : Concurrent(t)

Spec == Init /\ [][Next]_vars

\* The history of a server that serves one request at a time: what the cache
\* held and what the clock showed when the request started, which route had
\* completed before, when the cache had last been refreshed, how often the
\* request has called fetch_from_s3 and how the call ended.
RecordStart ==
    /\ call' = [pre |-> cache, at |-> now, prevOp |-> lastOp,
                lastGood |-> lastGood, attempts |-> 0, outcome |-> "none"]
    /\ UNCHANGED <<lastOp, lastGood>>

FetchOutcome(t) ==
    IF pc'[t] = "upd_data" THEN "ok"
    ELSE IF pc'[t] = "ret_miss" THEN "failed" ELSE "raised"

RecordStep(t) ==
    /\ call' = IF pc[t] = "fetch"
               THEN [call EXCEPT !.attempts = @ + 1, !.outcome = FetchOutcome(t)]
               ELSE call
    /\ lastOp' = IF pc'[t] = "idle" THEN op[t] ELSE lastOp
    /\ lastGood' = IF pc[t] = "upd_ts" THEN Some(current_time[t]) ELSE lastGood

\* The same handlers with one request served at a time, by thread 1.
Sequential(t) ==
    \/ AllIdle /\ GetBegin(t) /\ RecordStart
    \/ AllIdle /\ ClearBegin(t) /\ RecordStart
    \/ AllIdle /\ HealthBegin(t) /\ RecordStart
    \/ GetCheckData(t) /\ RecordStep(t)
    \/ GetCheckTs(t) /\ RecordStep(t)
    \/ GetCheckAge(t) /\ RecordStep(t)
    \/ GetReturnHit(t) /\ RecordStep(t)
    \/ GetFetch(t) /\ RecordStep(t)
    \/ GetFetchRaises(t) /\ RecordStep(t)
    \/ GetUpdateData(t) /\ RecordStep(t)
    \/ GetUpdateTs(t) /\ RecordStep(t)
    \/ GetReturnMiss(t) /\ RecordStep(t)
    \/ ClearData(t) /\ RecordStep(t)
    \/ ClearTs(t) /\ RecordStep(t)
    \/ HealthCheckTs(t) /\ RecordStep(t)
    \/ HealthAge(t) /\ RecordStep(t)

SeqNext ==
    \/ Tick /\ UNCHANGED history
    \/ Sequential(1)

SeqSpec == Init /\ [][SeqNext]_vars

\* ------------------------------------------------------------------------
\* The conversion scripts: db_to_json.py, scripts/db_to_json.py,
\* scripts/excel_to_json.py and scripts/convert_compatibility.py with their
\* conversion_utils
\* ------------------------------------------------------------------------
MaxModels == 2
MaxDevices == 2
MaxRecords == 2

Min(a, b) == IF a < b THEN a ELSE b

\* Model names are strings, modelled as sequences of one-character strings.
\* "b", "A.c", "c" and "a_c": out of id order, and two names with the same
\* id.
ModelNames == << <<"b">>, <<"A", ".", "c">>, <<"c">>, <<"a", "_", "c">> >>
\* Device names, strings as well.
n150 == <<"n", "1", "5", "0">>
n300 == <<"n", "3", "0", "0">>
p150x4 == <<"p", "1", "5", "0", "x", "4">>
t3k == <<"t", "3", "k">>
DeviceNames == <<n150, n300, p150x4, t3k>>
\* The metric names a row can carry: two of target_metrics and one that is
\* not in it.
MetricNames == {"accuracy_check", "mean_tps", "power"}
\* A metric_value that is text, not a number: the string "n/a".
NotANumber == <<"n", "/", "a">>
IsNumber(metric_value) == Len(metric_value) = 1

\* metric_value: NULL, zero, a non-zero number or text.
MetricValues == {None, Some(0), Some(2), NotANumber}

\* target_metrics, the accepted metric names.
target_metrics == {"mean_ttft_ms", "ttft", "mean_tps", "accuracy_check"}

SeqToSet(s) == {s[i] : i \in DOMAIN s}

\* The registries config.py can hold: MODEL_MAPPING's keys and
\* DEVICE_MAPPING's keys, in the order of the dict; each is empty or holds
\* the first MaxModels (MaxDevices) names.
ModelRegistries ==
    {SubSeq(ModelNames, 1, k) : k \in {0, Min(MaxModels, Len(ModelNames))}}
DeviceRegistries ==
    {SubSeq(DeviceNames, 1, k) : k \in {0, Min(MaxDevices, Len(DeviceNames))}}

\* DEVICE_MAPPING[device_name]: the hardware name of a configured device.
HardwareName(device_name) ==
    CASE device_name = n150 -> "n150 (Wormhole)"
      [] device_name = n300 -> "n300 (Wormhole)"
      [] device_name = p150x4 -> "Quietbox (Blackhole)"
      [] device_name = t3k -> "Loudbox (Wormhole)"

\* The rows the query (or the spreadsheet) can return: about the first model
\* (registered unless the registry is empty) or the last one (never
\* registered), on the first or the last device, with a zero or non-zero
\* accuracy_check; for the first model on the first device also a NULL
\* accuracy_check, a mean_tps that is a number or text, and a metric that is
\* not accepted; and a row without model name and one without device name.
Rows ==
    {r \in [ml_model_name : {ModelNames[1], ModelNames[Len(ModelNames)]},
            device_name : {DeviceNames[1], DeviceNames[Len(DeviceNames)]},
            metric_name : MetricNames, metric_value : MetricValues] :
        \/ r.metric_name = "accuracy_check" /\ r.metric_value \in {Some(0), Some(2)}
        \/ /\ r.ml_model_name = ModelNames[1]
           /\ r.device_name = DeviceNames[1]
           /\ \/ r.metric_name = "accuracy_check" /\ r.metric_value = None
              \/ r.metric_name = "mean_tps" /\ r.metric_value \in {Some(2), NotANumber}
              \/ r.metric_name = "power" /\ r.metric_value = Some(2)}
    \cup {[ml_model_name |-> None, device_name |-> DeviceNames[1],
           metric_name |-> "accuracy_check", metric_value |-> Some(2)],
          [ml_model_name |-> ModelNames[1], device_name |-> None,
           metric_name |-> "accuracy_check", metric_value |-> Some(2)]}
RowLists == UNION {[1..n -> Rows] : n \in 0..MaxRecords}

\* ---- conversion_utils.py -------------------------------------------------

\* str.lower() on the characters in use.
Lower(c) ==
    CASE c = "A" -> "a"
      [] c = "B" -> "b"
      [] c = "C" -> "c"
      [] OTHER -> c

LowerStr(s) == [i \in DOMAIN s |-> Lower(s[i])]

\* The characters re.sub's class [.\s_] matches, and those the chained
\* replace calls replace.
IsSeparator(c) == c \in {".", "_", " "}

\* scripts/conversion_utils.py, scripts/convert_compatibility.py:
\* model_name.lower().replace('.', '-').replace('_', '-').replace(' ', '-')
create_model_id_replace(model_name) ==
    [i \in DOMAIN model_name |->
        IF IsSeparator(Lower(model_name[i])) THEN "-" ELSE Lower(model_name[i])]

\* conversion_utils.py: re.sub(r'[.\s_]+', '-', model_name.lower()): every
\* maximal run of separators becomes one '-'.
RECURSIVE SubRuns(_, _)
SubRuns(s, inRun) ==
    IF s = <<>> THEN <<>>
    ELSE IF IsSeparator(Head(s))
         THEN (IF inRun THEN <<>> ELSE <<"-">>) \o SubRuns(Tail(s), TRUE)
         ELSE <<Head(s)>> \o SubRuns(Tail(s), FALSE)

create_model_id_regex(model_name) == SubRuns(LowerStr(model_name), FALSE)

\* The create_model_id each script imports or defines.
create_model_id(variant, model_name) ==
    IF variant = "db_to_json" THEN create_model_id_regex(model_name)
                              ELSE create_model_id_replace(model_name)

\* create_model_entry (display_name, family and tasks are looked up from the
\* registry, or defaulted for a name it lacks; the name stands for them).
create_model_entry(variant, model_name) ==
    [id |-> create_model_id(variant, model_name),
     display_name |-> model_name,
     compatibility |-> <<>>]

\* d[k] = v on a dict.
DictSet(d, k, v) == [x \in (DOMAIN d) \cup {k} |-> IF x = k THEN v ELSE d[x]]

\* Mutant of CoerceMetric: accuracy_check is true for a zero value.
CoerceMetric_Inverted(metric_name, metric_value) ==
    IF metric_name = "accuracy_check"
    THEN IsNumber(metric_value) /\ metric_value[1] = 0
    ELSE metric_value[1]

\* bool(metric_value != 0) for accuracy_check (text differs from 0),
\* float(metric_value) otherwise (numbers are modelled as integers: float()
\* keeps their value; for text float() raises, see CoercionRaises).
CoerceMetric(metric_name, metric_value) ==
    IF metric_name = "accuracy_check"
    THEN ~IsNumber(metric_value) \/ metric_value[1] # 0
    ELSE metric_value[1]

\* Mutant of PairData: a row with a zero value is not selected.
PairData_NonZero(df, model_name, device_name) ==
    SelectSeq(df, LAMBDA r : /\ r.ml_model_name = model_name
                             /\ r.device_name = device_name
                             /\ r.metric_name \in target_metrics
                             /\ r.metric_value # None
                             /\ r.metric_value[1] # 0)

\* The rows get_performance_metrics selects for a pair.
PairData(df, model_name, device_name) ==
    SelectSeq(df, LAMBDA r : /\ r.ml_model_name = model_name
                             /\ r.device_name = device_name
                             /\ r.metric_name \in target_metrics
                             /\ r.metric_value # None)

\* Mutant of IterRows: a metric name that is already a key keeps its value.
RECURSIVE IterRows_FirstWins(_, _)
IterRows_FirstWins(rows, metrics) ==
    IF rows = <<>> THEN metrics
    ELSE LET row == Head(rows)
         IN  IterRows_FirstWins(Tail(rows),
                 IF row.metric_name \in DOMAIN metrics THEN metrics
                 ELSE DictSet(metrics, row.metric_name,
                              CoerceMetric(row.metric_name, row.metric_value)))

\* for _, row in pair_data.iterrows(): metrics[metric_name] = ...
RECURSIVE IterRows(_, _)
IterRows(rows, metrics) ==
    IF rows = <<>> THEN metrics
    ELSE LET row == Head(rows)
         IN  IterRows(Tail(rows),
                      DictSet(metrics, row.metric_name,
                              CoerceMetric(row.metric_name, row.metric_value)))

get_performance_metrics(df, model_name, device_name) ==
    IterRows(PairData(df, model_name, device_name), <<>>)

\* float(metric_value) raises ValueError for a selected row of the pair;
\* nothing in get_performance_metrics or its callers catches it.
CoercionRaises(df, model_name, device_name) ==
    LET pair_data == PairData(df, model_name, device_name)
    IN  \E i \in DOMAIN pair_data :
            /\ pair_data[i].metric_name # "accuracy_check"
            /\ ~IsNumber(pair_data[i].metric_value)

\* bool(metrics) of a dict.
Truthy(metrics) == DOMAIN metrics # {}

\* ---- db_to_json.py, scripts/db_to_json.py, convert_compatibility.py ------

Variants ==
    {"db_to_json", "scripts_db_to_json", "excel_to_json", "convert_compatibility"}

\* The two conversions that read the database.
DbVariants == {"db_to_json", "scripts_db_to_json"}

\* df[df['ml_model_name'].notna() & df['device_name'].notna()]
NotNaNames(rows) ==
    SelectSeq(rows, LAMBDA r : r.ml_model_name # None /\ r.device_name # None)

\* Mutant of build_compatibility_entry: the metrics are attached always.
build_compatibility_entry_AlwaysMetrics(variant, df, model_name, device_name, hardware_name) ==
    LET metrics == get_performance_metrics(df, model_name, device_name)
        is_supported == Truthy(metrics)
    IN  [entry |-> [hardware |-> hardware_name,
                    status |-> IF is_supported THEN "Supported"
                                               ELSE "Not Supported",
                    metrics |-> metrics],
         is_supported |-> is_supported]

\* build_compatibility_entry (convert_compatibility.py builds the same entry
\* inline); db_to_json.py adds hardware_id; scripts/db_to_json.py skips the
\* extractor for an empty DataFrame.
build_compatibility_entry(variant, df, model_name, device_name, hardware_name) ==
    LET metrics == IF variant = "scripts_db_to_json" /\ df = <<>>
                   THEN <<>>
                   ELSE get_performance_metrics(df, model_name, device_name)
        is_supported == Truthy(metrics)
        base == [hardware |-> hardware_name,
                 status |-> IF is_supported THEN "Supported"
                                            ELSE "Not Supported"]
        ident == IF variant = "db_to_json"
                 THEN [hardware_id |-> device_name] ELSE <<>>
        entry == IF Truthy(metrics)
                 THEN base @@ ident @@ [metrics |-> metrics]
                 ELSE base @@ ident
    IN  [entry |-> entry, is_supported |-> is_supported]

\* Mutant of DeviceItems: the items in the reverse of the dict's order.
DeviceItems_Reversed(devices) ==
    [i \in DOMAIN devices |->
        [device_name |-> devices[Len(devices) + 1 - i],
         hardware_name |-> HardwareName(devices[Len(devices) + 1 - i])]]

\* DEVICE_MAPPING.items(): the (device_name, hardware_name) pairs in the
\* order of the dict.
DeviceItems(devices) ==
    [i \in DOMAIN devices |->
        [device_name |-> devices[i], hardware_name |-> HardwareName(devices[i])]]

\* The inner loop: one entry per item of the device mapping, in its order.
Compatibility(variant, df, model_name, mappings) ==
    [i \in DOMAIN mappings |->
        build_compatibility_entry(variant, df, model_name,
                                  mappings[i].device_name,
                                  mappings[i].hardware_name)]

\* The code point order of the characters in use, and Python's < on strings.
CodePoint(c) ==
    CASE c = " " -> 32 [] c = "-" -> 45 [] c = "." -> 46
      [] c = "0" -> 48 [] c = "1" -> 49 [] c = "3" -> 51 [] c = "4" -> 52
      [] c = "5" -> 53
      [] c = "A" -> 65 [] c = "B" -> 66 [] c = "C" -> 67
      [] c = "K" -> 75 [] c = "N" -> 78 [] c = "P" -> 80
      [] c = "T" -> 84 [] c = "X" -> 88 [] c = "_" -> 95
      [] c = "a" -> 97 [] c = "b" -> 98 [] c = "c" -> 99
      [] c = "k" -> 107 [] c = "n" -> 110 [] c = "p" -> 112
      [] c = "t" -> 116 [] c = "x" -> 120

RECURSIVE StrLess(_, _)
StrLess(a, b) ==
    IF b = <<>> THEN FALSE
    ELSE IF a = <<>> THEN TRUE
    ELSE IF Head(a) = Head(b) THEN StrLess(Tail(a), Tail(b))
    ELSE CodePoint(Head(a)) < CodePoint(Head(b))

\* sorted(..., key=lambda x: x['id']): a stable sort.
RECURSIVE InsertById(_, _)
InsertById(sorted, x) ==
    IF sorted = <<>> THEN <<x>>
    ELSE IF StrLess(x.id, Head(sorted).id) THEN <<x>> \o sorted
    ELSE <<Head(sorted)>> \o InsertById(Tail(sorted), x)

\* Mutant of SortedById: the entries stay in the order they were built in.
SortedById_Unsorted(entries) == entries

RECURSIVE SortedById(_)
SortedById(entries) ==
    IF entries = <<>> THEN <<>>
    ELSE InsertById(SortedById(SubSeq(entries, 1, Len(entries) - 1)),
                    entries[Len(entries)])

\* sorted(names) of a set of strings.
RECURSIVE SortedNames(_)
SortedNames(names) ==
    IF names = {} THEN <<>>
    ELSE LET least == CHOOSE x \in names :
                         \A y \in names \ {x} : StrLess(x, y)
         IN  <<least>> \o SortedNames(names \ {least})

\* str.upper() on a character in use, and str.capitalize().
Upper(c) ==
    CASE c = "a" -> "A"
      [] c = "b" -> "B"
      [] c = "c" -> "C"
      [] c = "k" -> "K"
      [] c = "n" -> "N"
      [] c = "p" -> "P"
      [] c = "t" -> "T"
      [] c = "x" -> "X"
      [] OTHER -> c

capitalize(s) ==
    [i \in DOMAIN s |-> IF i = 1 THEN Upper(s[i]) ELSE Lower(s[i])]

\* excel_to_json.py, register_new_entries: new_device_mappings, filled in
\* the order of sorted(new_devices).
new_device_mappings(new_devices) ==
    LET names == SortedNames(new_devices)
    IN  [i \in DOMAIN names |->
            [device_name |-> names[i], hardware_name |-> capitalize(names[i])]]

\* excel_to_json.py: all_device_mappings = {**DEVICE_MAPPING,
\* **new_device_mappings} (the new devices are not keys of DEVICE_MAPPING).
all_device_mappings(devices, new_devices) ==
    DeviceItems(devices) \o new_device_mappings(new_devices)

\* The orders in which a Python set of the names can be iterated.
Orders(names) ==
    {o \in [1..Cardinality(names) -> names] :
        \A i, j \in DOMAIN o : i # j => o[i] # o[j]}

\* Mutant of discover_new_entries: the registry's keys are not subtracted.
discover_new_entries_NoDifference(df, models, devices) ==
    [new_models |-> {r.ml_model_name : r \in SeqToSet(df)},
     new_devices |-> {r.device_name : r \in SeqToSet(df)}]

\* discover_new_entries
discover_new_entries(df, models, devices) ==
    [new_models |-> {r.ml_model_name : r \in SeqToSet(df)} \ SeqToSet(models),
     new_devices |-> {r.device_name : r \in SeqToSet(df)} \ SeqToSet(devices)]

\* Mutant of Aggregate: the totals count models, not (model, device) pairs.
Aggregate_CountsModels(variant, df, order, mappings) ==
    LET devices == [j \in DOMAIN mappings |-> mappings[j].device_name]
        built == [i \in DOMAIN order |->
                    Compatibility(variant, df, order[i], mappings)]
        entries == [i \in DOMAIN order |->
                      [create_model_entry(variant, order[i]) EXCEPT
                          !.compatibility =
                              [j \in DOMAIN devices |-> built[i][j].entry]]]
        supported == {i \in DOMAIN order :
                        \E j \in DOMAIN devices : built[i][j].is_supported}
        unsupported == {i \in DOMAIN order :
                          \E j \in DOMAIN devices : ~built[i][j].is_supported}
    IN  [models |-> SortedById(entries),
         order |-> order,
         devices |-> devices,
         total_supported |-> Cardinality(supported),
         total_not_supported |-> Cardinality(unsupported)]

\* The two loops over the models (in `order`) and the devices with their
\* running totals, and the sort.
Aggregate(variant, df, order, mappings) ==
    LET devices == [j \in DOMAIN mappings |-> mappings[j].device_name]
        built == [i \in DOMAIN order |->
                    Compatibility(variant, df, order[i], mappings)]
        entries == [i \in DOMAIN order |->
                      [create_model_entry(variant, order[i]) EXCEPT
                          !.compatibility =
                              [j \in DOMAIN devices |-> built[i][j].entry]]]
        supported == {<<i, j>> \in (DOMAIN order) \X (DOMAIN devices) :
                        built[i][j].is_supported}
        unsupported == {<<i, j>> \in (DOMAIN order) \X (DOMAIN devices) :
                          ~built[i][j].is_supported}
    IN  [models |-> SortedById(entries),
         order |-> order,
         devices |-> devices,
         total_supported |-> Cardinality(supported),
         total_not_supported |-> Cardinality(unsupported)]

\* What execute_query (pd.read_excel for the spreadsheet) does: it raises,
\* or it returns rows.
SourceResults ==
    {[ok |-> FALSE, rows |-> <<>>]} \cup {[ok |-> TRUE, rows |-> r] : r \in RowLists}

NoOutput ==
    [models |-> <<>>, order |-> <<>>, devices |-> <<>>, total_supported |-> 0,
     total_not_supported |-> 0]

\* A run of one of the scripts starts: the registry in config.py and what the
\* data source will answer are given.
RunInit ==
    \E v \in Variants, M \in ModelRegistries, D \in DeviceRegistries,
       q \in SourceResults :
        run = [pc |-> "load", variant |-> v, models |-> M, devices |-> D,
               source |-> q, df |-> <<>>, out |-> NoOutput,
               new_models |-> {}, new_devices |-> {},
               file |-> None, raised |-> "no", summary |-> FALSE,
               upload |-> "not reached"]

\* load_data_from_database; for the spreadsheets pd.read_excel and the notna
\* filter. Only db_to_json.py catches the error of the query.
Load ==
    /\ run.pc = "load"
    /\ run' = IF run.source.ok
              THEN [run EXCEPT !.df = NotNaNames(run.source.rows),
                               !.pc = "convert"]
              ELSE IF run.variant = "db_to_json"
                   THEN [run EXCEPT !.df = <<>>, !.pc = "convert"]
                   ELSE [run EXCEPT !.raised = "source", !.pc = "raised"]
    /\ UNCHANGED <<serverVars, history>>

\* db_to_json.py: if df.empty: print("Stopping: ..."); return
StopsOnEmpty == run.variant = "db_to_json" /\ run.df = <<>>

Stop ==
    /\ run.pc = "convert"
    /\ StopsOnEmpty
    /\ run' = [run EXCEPT !.pc = "stopped"]
    /\ UNCHANGED <<serverVars, history>>

\* Mutant of IterationOrders: every script also iterates the model names of
\* the data.
IterationOrders_ObservedToo ==
    Orders(SeqToSet(run.models) \cup {r.ml_model_name : r \in SeqToSet(run.df)})

\* The names the outer loop runs over, and the orders it can take them in:
\* db_to_json.py iterates MODEL_MAPPING.keys(), scripts/db_to_json.py
\* set(MODEL_MAPPING.keys()), excel_to_json.py set(MODEL_MAPPING.keys()) |
\* new_models, convert_compatibility.py the set of the model names of the
\* data.
IterationOrders ==
    CASE run.variant = "db_to_json" -> {run.models}
      [] run.variant = "scripts_db_to_json" -> Orders(SeqToSet(run.models))
      [] run.variant = "excel_to_json" ->
            Orders(SeqToSet(run.models) \cup
                   discover_new_entries(run.df, run.models, run.devices).new_models)
      [] OTHER -> Orders({r.ml_model_name : r \in SeqToSet(run.df)})

\* The device items the inner loop runs over: DEVICE_MAPPING.items(), in
\* excel_to_json.py all_device_mappings.items().
IterationMappings ==
    IF run.variant = "excel_to_json"
    THEN all_device_mappings(
             run.devices,
             discover_new_entries(run.df, run.models, run.devices).new_devices)
    ELSE DeviceItems(run.devices)

\* excel_to_json.py, register_new_entries: update_config_file is called when
\* there is a new model or a new device; it opens config.py for reading and
\* for writing outside any try block, and so does its caller.
CallsUpdateConfig ==
    /\ run.variant = "excel_to_json"
    /\ LET new == discover_new_entries(run.df, run.models, run.devices)
       IN  new.new_models # {} \/ new.new_devices # {}

\* open(config_path) or f.write raises: the error leaves the conversion.
RegisterFails ==
    /\ run.pc = "convert"
    /\ CallsUpdateConfig
    /\ LET new == discover_new_entries(run.df, run.models, run.devices)
       IN  run' = [run EXCEPT !.new_models = new.new_models,
                              !.new_devices = new.new_devices,
                              !.raised = "config", !.pc = "raised"]
    /\ UNCHANGED <<serverVars, history>>

\* The extractor raises for one of the pairs the two loops visit
\* (scripts/db_to_json.py does not call it for an empty DataFrame).
ConvertRaises ==
    /\ run.df # <<>>
    /\ \E order \in IterationOrders :
          \E i \in DOMAIN order, j \in DOMAIN IterationMappings :
             CoercionRaises(run.df, order[i], IterationMappings[j].device_name)

\* The ValueError leaves the conversion: nothing is written.
ConvertFails ==
    /\ run.pc = "convert"
    /\ ~StopsOnEmpty
    /\ ConvertRaises
    /\ LET new == IF run.variant = "convert_compatibility"
                  THEN [new_models |-> {}, new_devices |-> {}]
                  ELSE discover_new_entries(run.df, run.models, run.devices)
       IN  run' = [run EXCEPT !.new_models = new.new_models,
                              !.new_devices = new.new_devices,
                              !.raised = "coerce", !.pc = "raised"]
    /\ UNCHANGED <<serverVars, history>>

\* From discover_new_entries to models_list = sorted(...).
Convert ==
    /\ run.pc = "convert"
    /\ ~StopsOnEmpty
    /\ ~ConvertRaises
    /\ \E order \in IterationOrders :
          LET new == IF run.variant = "convert_compatibility"
                     THEN [new_models |-> {}, new_devices |-> {}]
                     ELSE discover_new_entries(run.df, run.models, run.devices)
          IN  run' = [run EXCEPT
                        !.new_models = new.new_models,
                        !.new_devices = new.new_devices,
                        !.out = Aggregate(run.variant, run.df, order,
                                          IterationMappings),
                        !.pc = "write"]
    /\ UNCHANGED <<serverVars, history>>

\* output_data
Document ==
    [metadata |-> [source |-> IF run.variant \in DbVariants
                              THEN "database" ELSE "compatibility.xlsx",
                   schema_version |-> "1.0"],
     models |-> run.out.models]

\* with open(output_path, 'w') as f: json.dump(output_data, f, indent=2)
WriteOutput ==
    /\ run.pc = "write"
    /\ run' = [run EXCEPT !.file = Some(Document), !.pc = "summary"]
    /\ UNCHANGED <<serverVars, history>>

\* Mutant of WriteFails: the error is swallowed and the run goes on.
WriteFails_Swallowed ==
    /\ run.pc = "write"
    /\ run' = [run EXCEPT !.raised = "write", !.pc = "summary"]
    /\ UNCHANGED <<serverVars, history>>

\* open or json.dump raises: the error leaves the conversion.
WriteFails ==
    /\ run.pc = "write"
    /\ run' = [run EXCEPT !.raised = "write", !.pc = "raised"]
    /\ UNCHANGED <<serverVars, history>>

\* print_summary(...)
Summary ==
    /\ run.pc = "summary"
    /\ run' = [run EXCEPT !.summary = TRUE,
                          !.pc = IF run.variant = "db_to_json" THEN "upload"
                                                               ELSE "done"]
    /\ UNCHANGED <<serverVars, history>>

\* Mutant of Upload: the upload is attempted before the document is written.
Upload_BeforeWrite ==
    /\ run.pc \in {"write", "upload"}
    /\ run' = [run EXCEPT !.upload = "True",
                          !.pc = IF run.pc = "upload" THEN "done" ELSE run.pc]
    /\ UNCHANGED <<serverVars, history>>

\* if os.getenv('UPLOAD_TO_S3', 'false').lower() == 'true': upload_to_s3(...)
\* upload_to_s3 returns True or False and raises nothing.
Upload ==
    /\ run.pc = "upload"
    /\ \E enabled \in BOOLEAN, uploaded \in BOOLEAN :
          run' = [run EXCEPT
                    !.upload = IF ~enabled THEN "disabled"
                               ELSE IF uploaded THEN "True" ELSE "False",
                    !.pc = "done"]
    /\ UNCHANGED <<serverVars, history>>

PipeInit == ServerInit /\ RunInit

PipeNext ==
    \/ Load
    \/ Stop
    \/ RegisterFails
    \/ ConvertFails
    \/ Convert
    \/ WriteOutput
    \/ WriteFails
    \/ Summary
    \/ Upload

PipeSpec == PipeInit /\ [][PipeNext]_vars

\* ------------------------------------------------------------------------
\* scripts/conversion_utils.py, update_config_file: the text of config.py is
\* a sequence of tokens; a token is a piece of text that the patterns of
\* update_config_file treat as a whole
\* ------------------------------------------------------------------------
Tok(kind) == [kind |-> kind, name |-> <<>>]

\* "    'name': 'Hardware'" of DEVICE_MAPPING, and "    'name': {" with the
\* lines of display_name, family and tasks up to the entry's closing brace.
Entry(kind, name) == [kind |-> kind, name |-> name]

DeviceHeader == Tok("DEVICE_MAPPING = {")
ModelHeader == Tok("MODEL_MAPPING = {")
ModelsConfigHeader == Tok("MODELS_CONFIG = {")
Close == Tok("}")
Comma == Tok(",")
NL == Tok("\n")
AutoAdded == Tok("    # Auto-added model")

\* '\n'.join(lines), each line a sequence of tokens.
RECURSIVE JoinLines(_)
JoinLines(lines) ==
    IF lines = <<>> THEN <<>>
    ELSE IF Len(lines) = 1 THEN lines[1]
    ELSE lines[1] \o <<NL>> \o JoinLines(Tail(lines))

\* The text of a mapping of config.py: the header, one line per entry and
\* the closing brace; the last entry has a trailing comma or not.
DeviceSection(devices, trailing) ==
    <<DeviceHeader, NL>>
    \o JoinLines([i \in DOMAIN devices |->
                    <<Entry("device", devices[i])>>
                    \o (IF i < Len(devices) \/ trailing THEN <<Comma>> ELSE <<>>)
                    \o (IF i = Len(devices) THEN <<NL>> ELSE <<>>)])
    \o <<Close, NL>>

ModelSection(header, models, trailing) ==
    <<header, NL>>
    \o JoinLines([i \in DOMAIN models |->
                    <<Entry("model", models[i]), Close>>
                    \o (IF i < Len(models) \/ trailing THEN <<Comma>> ELSE <<>>)
                    \o (IF i = Len(models) THEN <<NL>> ELSE <<>>)])
    \o <<Close, NL>>

\* The registries the text can hold: the first k model names, the first k
\* device names.
ConfigModels ==
    {SubSeq(ModelNames, 1, k) : k \in 0..Min(MaxModels, Len(ModelNames))}
ConfigDevices ==
    {SubSeq(DeviceNames, 1, k) : k \in 0..Min(MaxDevices, Len(DeviceNames))}

\* The texts of config.py: the models are in MODELS_CONFIG, as in
\* scripts/config.py, or in MODEL_MAPPING, the name the scripts import and
\* update_config_file looks for.
ConfigTexts ==
    {DeviceSection(D, dc) \o <<NL>> \o ModelSection(h, M, mc) :
        D \in ConfigDevices, dc \in BOOLEAN,
        h \in {ModelHeader, ModelsConfigHeader},
        M \in ConfigModels, mc \in BOOLEAN}

\* The position of the first token of the kind, 0 if there is none.
Find(content, kind) ==
    IF \E i \in DOMAIN content : content[i].kind = kind
    THEN CHOOSE i \in DOMAIN content :
            /\ content[i].kind = kind
            /\ \A k \in 1..(i - 1) : content[k].kind # kind
    ELSE 0

\* [^}]* from position i: the position of the first '}' after i, 0 if none.
FirstClose(content, i) ==
    IF \E j \in (i + 1)..Len(content) : content[j] = Close
    THEN CHOOSE j \in (i + 1)..Len(content) :
            /\ content[j] = Close
            /\ \A k \in (i + 1)..(j - 1) : content[k] # Close
    ELSE 0

\* str.rstrip(): the trailing newlines go (indentation is inside the tokens).
RECURSIVE rstrip(_)
rstrip(text) ==
    IF text # <<>> /\ text[Len(text)] = NL
    THEN rstrip(SubSeq(text, 1, Len(text) - 1))
    ELSE text

\* content = existing_content.rstrip(); if not content.endswith(','):
\* content += ','
EnsureComma(existing_content) ==
    LET content == rstrip(existing_content)
    IN  IF content # <<>> /\ content[Len(content)] = Comma
        THEN content ELSE content \o <<Comma>>

\* re.sub(r"(DEVICE_MAPPING = \{[^}]*)(})", replace_device_mapping, content)
PatchDeviceMapping(content, new_devices) ==
    LET i == Find(content, DeviceHeader.kind)
        j == IF i = 0 THEN 0 ELSE FirstClose(content, i)
        names == SortedNames(new_devices)
        new_entries == [n \in DOMAIN names |->
                           <<Entry("device", names[n]), Comma>>]
    IN  IF i = 0 \/ j = 0 THEN content
        ELSE SubSeq(content, 1, i - 1)
             \o EnsureComma(SubSeq(content, i, j - 1))
             \o <<NL>> \o JoinLines(new_entries) \o <<NL>> \o <<Close>>
             \o SubSeq(content, j + 1, Len(content))

\* The end of the run of newlines that starts at position j + 1.
RECURSIVE SpaceEnd(_, _)
SpaceEnd(content, j) ==
    IF j + 1 <= Len(content) /\ content[j + 1] = NL
    THEN SpaceEnd(content, j + 1) ELSE j

\* re.sub(r"(MODEL_MAPPING = \{[^}]*)(}\s*\n)", replace_model_mapping,
\* content): the first '}' after the header must be followed by white space
\* up to a newline, or nothing matches and the text stays as it is.
PatchModelMapping(content, new_models) ==
    LET i == Find(content, ModelHeader.kind)
        j == IF i = 0 THEN 0 ELSE FirstClose(content, i)
        k == IF j = 0 THEN 0 ELSE SpaceEnd(content, j)
        names == SortedNames(new_models)
        new_entries == [n \in DOMAIN names |->
                           <<NL, AutoAdded, NL,
                             Entry("model", names[n]), Close, Comma>>]
    IN  IF i = 0 \/ j = 0 \/ k = j THEN content
        ELSE SubSeq(content, 1, i - 1)
             \o EnsureComma(SubSeq(content, i, j - 1))
             \o JoinLines(new_entries) \o <<NL>>
             \o SubSeq(content, j, k)
             \o SubSeq(content, k + 1, Len(content))

\* The names the new entries can have: the last two of the names in use
\* that the registry lacks.
NewNameSets(names, registered) ==
    SUBSET {names[i] : i \in {k \in DOMAIN names :
                                 /\ k >= Len(names) - 1
                                 /\ names[k] \notin registered}}

RegisteredIn(content, kind) ==
    {content[i].name : i \in {k \in DOMAIN content : content[k].kind = kind}}

\* update_config_file(new_devices, new_models) is called on a config.py.
PatchInit ==
    /\ ServerInit
    /\ \E text \in ConfigTexts :
          \E nd \in NewNameSets(DeviceNames, RegisteredIn(text, "device")),
             nm \in NewNameSets(ModelNames, RegisteredIn(text, "model")) :
              run = [pc |-> "patch_start", config |-> text, before |-> text,
                     content |-> <<>>, new_devices |-> nd, new_models |-> nm,
                     raised |-> "no"]

\* if not new_devices and not new_models: return
PatchReturn ==
    /\ run.pc = "patch_start"
    /\ run.new_devices = {} /\ run.new_models = {}
    /\ run' = [run EXCEPT !.pc = "patch_returned"]
    /\ UNCHANGED <<serverVars, history>>

\* with open(config_path, 'r') as f: content = f.read()
PatchRead ==
    /\ run.pc = "patch_start"
    /\ run.new_devices # {} \/ run.new_models # {}
    /\ run' = [run EXCEPT !.content = run.config, !.pc = "patch_devices"]
    /\ UNCHANGED <<serverVars, history>>

\* open or read raises: nothing catches it.
PatchReadFails ==
    /\ run.pc = "patch_start"
    /\ run.new_devices # {} \/ run.new_models # {}
    /\ run' = [run EXCEPT !.raised = "read", !.pc = "patch_raised"]
    /\ UNCHANGED <<serverVars, history>>

\* if new_devices: ...
PatchDevices ==
    /\ run.pc = "patch_devices"
    /\ run' = [run EXCEPT
                  !.content = IF run.new_devices # {}
                              THEN PatchDeviceMapping(run.content, run.new_devices)
                              ELSE run.content,
                  !.pc = "patch_models"]
    /\ UNCHANGED <<serverVars, history>>

\* if new_models: ...
PatchModels ==
    /\ run.pc = "patch_models"
    /\ run' = [run EXCEPT
                  !.content = IF run.new_models # {}
                              THEN PatchModelMapping(run.content, run.new_models)
                              ELSE run.content,
                  !.pc = "patch_write"]
    /\ UNCHANGED <<serverVars, history>>

\* with open(config_path, 'w') as f: f.write(content)
PatchWrite ==
    /\ run.pc = "patch_write"
    /\ run' = [run EXCEPT !.config = run.content, !.pc = "patch_done"]
    /\ UNCHANGED <<serverVars, history>>

\* open(config_path, 'w') raises and the file is as it was, or write raises
\* after open has truncated the file.
PatchWriteFails ==
    /\ run.pc = "patch_write"
    /\ \E left \in {run.config, <<>>} :
          run' = [run EXCEPT !.config = left, !.raised = "write",
                             !.pc = "patch_raised"]
    /\ UNCHANGED <<serverVars, history>>

PatchNext ==
    \/ PatchReturn
    \/ PatchRead
    \/ PatchReadFails
    \/ PatchDevices
    \/ PatchModels
    \/ PatchWrite
    \/ PatchWriteFails

PatchSpec == PatchInit /\ [][PatchNext]_vars

\* ------------------------------------------------------------------------
\* db_config.py: execute_query running its body inside get_db_connection
\* ------------------------------------------------------------------------

\* What the environment does to each call of one execute_query: the query
\* file is there or not, the credentials are complete or not, and connect,
\* the body (cursor.execute, fetchall), commit, rollback and close return
\* or raise; the body can also be left by a BaseException that is not an
\* Exception (KeyboardInterrupt).
Outcomes == {"ok", "raises"}
DbEnvironments ==
    [query_file : Outcomes, config : Outcomes, connect : Outcomes,
     body : {"ok", "Exception", "BaseException"},
     commit : Outcomes, rollback : Outcomes, close : Outcomes]

DbInit ==
    /\ ServerInit
    /\ \E env \in DbEnvironments :
          run = [pc |-> "load_query", env |-> env, conn |-> None,
                 calls |-> <<>>, original |-> None, error |-> None]

\* An error is raised at `where`: it is the one that propagates from now
\* on; the first one of the run is the original error.
Raise(r, where) ==
    [r EXCEPT !.error = Some(where),
              !.original = IF r.original = None THEN Some(where) ELSE @]

\* query = load_query_from_file(query_file)
load_query_from_file ==
    /\ run.pc = "load_query"
    /\ run' = IF run.env.query_file = "ok"
              THEN [run EXCEPT !.pc = "config"]
              ELSE [Raise(run, "load_query") EXCEPT !.pc = "raised"]
    /\ UNCHANGED <<serverVars, history>>

\* config = DatabaseConfig(); conn = None: outside the try block.
DatabaseConfig ==
    /\ run.pc = "config"
    /\ run' = IF run.env.config = "ok"
              THEN [run EXCEPT !.pc = "connect"]
              ELSE [Raise(run, "config") EXCEPT !.pc = "raised"]
    /\ UNCHANGED <<serverVars, history>>

\* conn = psycopg2.connect(...); yield conn
Connect ==
    /\ run.pc = "connect"
    /\ run' = IF run.env.connect = "ok"
              THEN [run EXCEPT !.conn = Some("conn"),
                               !.calls = Append(@, "connect"),
                               !.pc = "body"]
              ELSE [Raise(run, "connect") EXCEPT !.pc = "except"]
    /\ UNCHANGED <<serverVars, history>>

\* The body of the with statement: cursor.execute(query); return
\* cursor.fetchall(). An Exception is thrown into the generator at the
\* yield and caught by `except Exception`; a BaseException is not caught.
Body ==
    /\ run.pc = "body"
    /\ run' = CASE run.env.body = "ok" -> [run EXCEPT !.pc = "commit"]
                [] run.env.body = "Exception" ->
                      [Raise(run, "body") EXCEPT !.pc = "except"]
                [] OTHER -> [Raise(run, "interrupt") EXCEPT !.pc = "finally"]
    /\ UNCHANGED <<serverVars, history>>

\* conn.commit()
Commit ==
    /\ run.pc = "commit"
    /\ LET called == [run EXCEPT !.calls = Append(@, "commit")]
       IN  run' = IF run.env.commit = "ok"
                  THEN [called EXCEPT !.pc = "finally"]
                  ELSE [Raise(called, "commit") EXCEPT !.pc = "except"]
    /\ UNCHANGED <<serverVars, history>>

\* Mutant of Except: no rollback.
Except_NoRollback ==
    /\ run.pc = "except"
    /\ run' = [run EXCEPT !.pc = "finally"]
    /\ UNCHANGED <<serverVars, history>>

\* except Exception as e: if conn: conn.rollback(); raise e
Except ==
    /\ run.pc = "except"
    /\ run' = IF run.conn = None
              THEN [run EXCEPT !.pc = "finally"]
              ELSE LET called == [run EXCEPT !.calls = Append(@, "rollback")]
                   IN  IF run.env.rollback = "ok"
                       THEN [called EXCEPT !.pc = "finally"]
                       ELSE [Raise(called, "rollback") EXCEPT !.pc = "finally"]
    /\ UNCHANGED <<serverVars, history>>

\* finally: if conn: conn.close(); then the error, if any, propagates.
Finally ==
    /\ run.pc = "finally"
    /\ LET closed == IF run.conn = None THEN run
                     ELSE LET called == [run EXCEPT !.calls = Append(@, "close")]
                          IN  IF run.env.close = "ok" THEN called
                                                      ELSE Raise(called, "close")
       IN  run' = [closed EXCEPT
                     !.pc = IF closed.error = None THEN "returned" ELSE "raised"]
    /\ UNCHANGED <<serverVars, history>>

DbNext ==
    \/ load_query_from_file
    \/ DatabaseConfig
    \/ Connect
    \/ Body
    \/ Commit
    \/ Except
    \/ Finally

DbSpec == DbInit /\ [][DbNext]_vars

\* ------------------------------------------------------------------------
\* create_model_id over the model names of a registry
\* ------------------------------------------------------------------------

\* Model names: letters of both cases, a digit, the three separators and
\* the dash, up to MaxNameLen characters.
MaxNameLen == 2
NameChars == {"A", "c", "3", ".", "_", " ", "-"}
Names == UNION {[1..n -> NameChars] : n \in 1..MaxNameLen}

\* The keys of a model registry: one name, or two distinct names (the keys
\* of a dict are distinct).
NameRegistries ==
    {<<a>> : a \in Names}
        \cup {p \in Names \X Names : p[1] # p[2]}

IdInit ==
    /\ ServerInit
    /\ \E names \in NameRegistries :
          run = [pc |-> "ids", names |-> names,
                 regex_ids |-> None, replace_ids |-> None]

\* The ids db_to_json.py gives the models of the registry: create_model_entry
\* of conversion_utils.py calls the regex create_model_id on each name.
CreateIdsRegex ==
    /\ run.pc = "ids"
    /\ run.regex_ids = None
    /\ run' = [run EXCEPT !.regex_ids =
                  Some([i \in DOMAIN run.names |->
                          create_model_id("db_to_json", run.names[i])])]
    /\ UNCHANGED <<serverVars, history>>

\* The ids the scripts give the same models: create_model_entry of
\* scripts/conversion_utils.py (and convert_compatibility.py's own) calls
\* the chained-replace create_model_id on each name.
CreateIdsReplace ==
    /\ run.pc = "ids"
    /\ run.replace_ids = None
    /\ run' = [run EXCEPT !.replace_ids =
                  Some([i \in DOMAIN run.names |->
                          create_model_id("scripts_db_to_json", run.names[i])])]
    /\ UNCHANGED <<serverVars, history>>

IdNext ==
    \/ CreateIdsRegex
    \/ CreateIdsReplace

IdSpec == IdInit /\ [][IdNext]_vars

\* ------------------------------------------------------------------------
\* Properties of the cache gate
\* ------------------------------------------------------------------------

\* In SeqSpec: thread 1 has answered a GET /api/compatibility and no other
\* request has started since, so `cache` is what that request left behind.
GetDone == pc[1] = "idle" /\ op[1] = "get"
ClearDone == pc[1] = "idle" /\ op[1] = "clear"

\* The age the slot had when the request started (the slot held a timestamp).
AgeAtStart == call.at - call.pre.timestamp[1]

\* C1: with ttl = 300, a get() that starts less than 300 s after the fetch
\* that filled the slot returns the cached data with zero fetch attempts and
\* leaves data and timestamp unchanged; a get() that starts 300 s or more
\* after it makes exactly one fetch attempt.
C1_CacheGateSequential ==
    (GetDone /\ call.pre.data # None /\ call.pre.timestamp # None) =>
        /\ cache.ttl = 300
        /\ (0 <= AgeAtStart /\ AgeAtStart < 300) =>
              /\ call.attempts = 0
              /\ resp[1] = [code |-> 200, body |-> call.pre.data]
              /\ cache = call.pre
        /\ AgeAtStart >= 300 => call.attempts = 1

\* The slot was filled at time 0 and a get() at t = 299 was served from it.
C1_Witness ==
    /\ GetDone
    /\ call.pre.data # None
    /\ call.pre.timestamp = Some(0)
    /\ call.at = 299
    /\ call.attempts = 0
    /\ resp[1].code = 200

\* C2 as stated: a failed refresh over a held (stale) value yields that
\* value, and get() is "unavailable" (503) only when the slot holds nothing.
C2_FailOpenAsStated ==
    GetDone =>
        /\ (call.outcome = "failed" /\ call.pre.data # None) =>
              resp[1] = [code |-> 200, body |-> call.pre.data]
        /\ resp[1].code = 503 => call.pre.data = None

\* C2, amended: a get() whose refresh fails answers "unavailable" (None,
\* surfaced as 503) whether or not a stale value is held; the stale value
\* stays in the slot and is not served.
C2_FailedRefreshUnavailable ==
    (GetDone /\ call.outcome = "failed") =>
        /\ resp[1] = [code |-> 503, body |-> None]
        /\ cache.data = call.pre.data

\* A refresh failed while the slot held a stale value, and the answer was 503.
C2_Witness ==
    /\ GetDone
    /\ call.outcome = "failed"
    /\ call.pre.data # None
    /\ cache.data # None
    /\ resp[1].code = 503

\* C3: in every state (each is visible to the handlers of other requests)
\* data is empty iff timestamp is empty, and a timestamp that is present is
\* the one written together with the data held.
C3_PairNeverHalfUpdated ==
    /\ (cache.data = None) <=> (cache.timestamp = None)
    /\ cache.timestamp # None => cache.timestamp = pairedTs

\* C4: a get() whose fetch fails leaves data, timestamp and ttl as they were;
\* data and timestamp differ from what they were only after a successful
\* fetch, and then the same get() has replaced both (ttl untouched).
C4_FailedRefreshIsNoOp ==
    /\ (GetDone /\ call.outcome = "failed") => cache = call.pre
    /\ (op[1] = "get" /\ cache # call.pre) => call.outcome = "ok"
    /\ (GetDone /\ call.outcome = "ok") =>
          /\ cache.data = resp[1].body
          /\ cache.data # None
          /\ cache.timestamp = Some(call.at)
          /\ cache.ttl = call.pre.ttl

\* An expired slot, a failed refresh, and the slot is what it was.
C4_Witness ==
    /\ GetDone
    /\ call.outcome = "failed"
    /\ call.pre.timestamp # None
    /\ AgeAtStart >= CACHE_TTL
    /\ cache = call.pre

\* C5: clear() leaves data and timestamp empty and ttl as it was; the get()
\* that follows a clear() calls the fetch whatever the clock shows.
C5_ClearForcesFetch ==
    /\ ClearDone =>
          cache = [data |-> None, timestamp |-> None, ttl |-> call.pre.ttl]
    /\ (GetDone /\ call.prevOp = "clear") => call.attempts = 1

\* The cache was refreshed, cleared and asked again within the same second:
\* the get() after the clear() fetched.
C5_Witness ==
    /\ GetDone
    /\ call.prevOp = "clear"
    /\ call.lastGood = Some(call.at)
    /\ call.attempts = 1

\* C6: GET /api/compatibility after POST /api/cache/clear with a failing
\* fetch answers 503; in general the handler answers 200 with the document
\* when get_cached_data yields data, 503 when it yields None and 500 when it
\* raises.
C6_HttpErrorSurface ==
    GetDone =>
        /\ (call.prevOp = "clear" /\ call.outcome = "failed") =>
              resp[1] = [code |-> 503, body |-> None]
        /\ call.outcome = "none" =>
              resp[1] = [code |-> 200, body |-> call.pre.data]
        /\ call.outcome = "ok" =>
              (resp[1].code = 200 /\ resp[1].body \in fetch_from_s3 \ {None})
        /\ call.outcome = "failed" => resp[1] = [code |-> 503, body |-> None]
        /\ call.outcome = "raised" => resp[1] = [code |-> 500, body |-> None]

\* A clear, then a get whose fetch failed, answered with 503.
C6_Witness ==
    /\ GetDone
    /\ call.prevOp = "clear"
    /\ call.outcome = "failed"
    /\ resp[1].code = 503

\* C24: a get() that has passed the freshness check (it is about to run
\* `return cache['data']`) answers 200 with non-empty data, whatever the
\* other handlers did in between.
C24_HitNeverUnavailable ==
    [][\A t \in Handlers :
          (pc[t] = "ret_hit" /\ pc'[t] = "idle") =>
              (resp'[t].code = 200 /\ resp'[t].body # None)]_vars

\* C25: while no clear() resets it, the timestamp of the slot never
\* decreases (a refresh that started earlier never overwrites the result of
\* one that started later).
C25_TimestampNeverDecreases ==
    [][(cache.timestamp # None /\ cache'.timestamp # None) =>
          cache'.timestamp[1] >= cache.timestamp[1]]_vars

\* ------------------------------------------------------------------------
\* Properties of the conversion
\* ------------------------------------------------------------------------
\* The run is over: it finished, returned early or left with an exception.
Ended == run.pc \in {"done", "stopped", "raised"}

\* The models list has been built.
Converted == run.pc \in {"write", "summary", "upload", "done"}

\* One model entry per registered model, one entry per registered device.
Complete(doc) ==
    /\ Len(doc.models) = Len(run.models)
    /\ \A m \in DOMAIN doc.models :
          Len(doc.models[m].compatibility) = Len(run.devices)

AllNotSupported(doc) ==
    \A m \in DOMAIN doc.models :
        \A j \in DOMAIN doc.models[m].compatibility :
            LET e == doc.models[m].compatibility[j]
            IN  e.status = "Not Supported" /\ "metrics" \notin DOMAIN e

\* C7: a database conversion whose query returns no rows writes (unless the
\* write itself fails) a document with one model entry per registered
\* model, each with one entry per registered device, all 'Not Supported'
\* and without metrics.
C7_EmptyInputCompleteDocument ==
    (/\ run.variant \in DbVariants
     /\ run.source.ok /\ run.source.rows = <<>>
     /\ Ended /\ run.raised # "write") =>
        /\ run.file # None
        /\ Complete(run.file[1])
        /\ AllNotSupported(run.file[1])

\* C8: a database conversion whose query raises or returns no rows does not
\* let the error out, does not stop early, and writes (unless the write
\* itself fails) the complete all-'Not Supported' document.
C8_UpstreamFailureNonFatal ==
    (/\ run.variant \in DbVariants
     /\ (~run.source.ok \/ run.source.rows = <<>>)
     /\ Ended /\ run.raised # "write") =>
        /\ run.raised = "no"
        /\ run.pc = "done"
        /\ run.file # None
        /\ Complete(run.file[1])
        /\ AllNotSupported(run.file[1])

C10_SupportedIffNonZeroMetric ==
    (run.variant \in DbVariants /\ Converted) =>
        \A m \in DOMAIN run.out.models :
            \A j \in DOMAIN run.out.models[m].compatibility :
               LET model == run.out.models[m]
                   rows == run.source.rows
               IN  (model.compatibility[j].status = "Supported") <=>
                   (\E i \in DOMAIN rows :
                       /\ rows[i].ml_model_name = model.display_name
                       /\ rows[i].device_name = run.devices[j]
                       /\ rows[i].metric_name \in target_metrics
                       /\ rows[i].metric_value # None
                       /\ rows[i].metric_value[1] # 0)

\* The records of the data that name the pair, with any metric and value.
RecordsOf(model_name, device_name) ==
    SelectSeq(run.df, LAMBDA r : /\ r.ml_model_name = model_name
                                 /\ r.device_name = device_name)

Matching(model_name, device_name, metric_name) ==
    {i \in DOMAIN run.df : /\ run.df[i].ml_model_name = model_name
                            /\ run.df[i].device_name = device_name
                            /\ run.df[i].metric_name = metric_name
                            /\ run.df[i].metric_value # None}

\* C12: for the data of every run, every model and every device for which
\* the extractor returns (the values of the pair are numbers), the mapping
\* it returns has a key exactly for each accepted metric name
\* with a matching non-null record; accuracy_check maps to true iff the raw
\* value (of the last such record) is non-zero, any other metric to its
\* number; without a matching record the mapping is empty.
C12_ExtractorResult ==
    \A m \in SeqToSet(ModelNames), d \in SeqToSet(DeviceNames) :
      ~CoercionRaises(run.df, m, d) =>
        LET metrics == get_performance_metrics(run.df, m, d)
            present == {name \in target_metrics : Matching(m, d, name) # {}}
        IN  /\ DOMAIN metrics = present
            /\ present = {} => metrics = <<>>
            /\ \A name \in present :
                  LET last == CHOOSE i \in Matching(m, d, name) :
                                 \A k \in Matching(m, d, name) : k <= i
                      raw == run.df[last].metric_value[1]
                  IN  IF name = "accuracy_check"
                      THEN metrics[name] = (raw # 0)
                      ELSE metrics[name] = raw

\* The records (accuracy_check, 2) and (mean_tps, 2) of one pair gave the
\* written entry metrics {accuracy_check: true, mean_tps: 2}, and the
\* extractor returns the empty mapping for another pair.
C12_Witness ==
    /\ run.pc = "done"
    /\ run.file # None
    /\ Len(run.df) = 2
    /\ \E m \in DOMAIN run.file[1].models :
          \E j \in DOMAIN run.file[1].models[m].compatibility :
             LET e == run.file[1].models[m].compatibility[j]
             IN  /\ "metrics" \in DOMAIN e
                 /\ DOMAIN e.metrics = {"accuracy_check", "mean_tps"}
                 /\ e.metrics = [accuracy_check |-> TRUE, mean_tps |-> 2]
    /\ \E m \in SeqToSet(ModelNames), d \in SeqToSet(DeviceNames) :
          get_performance_metrics(run.df, m, d) = <<>>

\* The device names the records of the data carry.
ObservedDevices == {r.device_name : r \in SeqToSet(run.df)}
ObservedModels == {r.ml_model_name : r \in SeqToSet(run.df)}

\* C13 as stated: every model entry's compatibility list has exactly one
\* entry per device of the registry, in the registry's order, whatever the
\* records are.
C13_OneEntryPerConfiguredDevice ==
    Converted =>
        \A m \in DOMAIN run.out.models :
            LET c == run.out.models[m].compatibility
            IN  /\ Len(c) = Len(run.devices)
                /\ \A j \in DOMAIN c :
                      c[j].hardware = HardwareName(run.devices[j])

\* C13, amended: the list has exactly one entry per device of the registry,
\* in the registry's order; db_to_json.py, scripts/db_to_json.py and
\* convert_compatibility.py add nothing to it, whatever the records are,
\* and excel_to_json.py appends one entry for each device of the records
\* that is not in the registry, in sorted order and with the capitalized
\* name as hardware.
C13_OneEntryPerIteratedDevice ==
    Converted =>
        LET added == IF run.variant = "excel_to_json"
                     THEN SortedNames(ObservedDevices \ SeqToSet(run.devices))
                     ELSE <<>>
            expected == run.devices \o added
        IN  /\ \A i, j \in DOMAIN expected : i # j => expected[i] # expected[j]
            /\ \A m \in DOMAIN run.out.models :
                  LET c == run.out.models[m].compatibility
                  IN  /\ Len(c) = Len(expected)
                      /\ \A j \in DOMAIN c :
                            c[j].hardware =
                                IF j <= Len(run.devices)
                                THEN HardwareName(expected[j])
                                ELSE capitalize(expected[j])

\* excel_to_json.py wrote a document whose model entries hold the two
\* registered devices and then a device that only the records name.
C13_Witness ==
    /\ run.pc = "done"
    /\ run.variant = "excel_to_json"
    /\ run.file # None
    /\ Len(run.devices) = MaxDevices
    /\ ObservedDevices \ SeqToSet(run.devices) # {}
    /\ \E m \in DOMAIN run.file[1].models :
          LET c == run.file[1].models[m].compatibility
          IN  /\ Len(c) = MaxDevices + 1
              /\ c[1].hardware = HardwareName(run.devices[1])
              /\ c[MaxDevices + 1].hardware = capitalize(DeviceNames[Len(DeviceNames)])

\* The model names and the device names a models list holds entries for.
ModelsIn(models) == {models[m].display_name : m \in DOMAIN models}
DevicesOut == SeqToSet(run.out.devices)

\* C14 as stated: in every script, a model or a device that the records
\* name and the registry lacks has no model entry and no compatibility
\* entry.
C14_UnknownNeverInOutput ==
    Converted =>
        /\ ModelsIn(run.out.models) \cap (ObservedModels \ SeqToSet(run.models)) = {}
        /\ DevicesOut \cap (ObservedDevices \ SeqToSet(run.devices)) = {}

\* C14, amended: the database conversions build entries for exactly the
\* registry's models and devices, so an unregistered identifier of the
\* records never appears; convert_compatibility.py builds entries for the
\* registry's devices only but for every model the records name, registered
\* or not; excel_to_json.py builds entries for the registry's models and
\* devices and for every model and device the records name. The written
\* document holds the same entries.
C14_UnknownOnlyInSpreadsheetOutput ==
    Converted =>
        /\ run.variant \in DbVariants =>
              /\ ModelsIn(run.out.models) = SeqToSet(run.models)
              /\ DevicesOut = SeqToSet(run.devices)
        /\ run.variant = "convert_compatibility" =>
              /\ ModelsIn(run.out.models) = ObservedModels
              /\ DevicesOut = SeqToSet(run.devices)
        /\ run.variant = "excel_to_json" =>
              /\ ModelsIn(run.out.models) = SeqToSet(run.models) \cup ObservedModels
              /\ DevicesOut = SeqToSet(run.devices) \cup ObservedDevices
        /\ run.file # None =>
              ModelsIn(run.file[1].models) = ModelsIn(run.out.models)

\* A database conversion wrote a document for a non-empty registry while
\* the records named an unregistered model on an unregistered device.
C14_Witness ==
    /\ run.pc = "done"
    /\ run.variant \in DbVariants
    /\ run.file # None
    /\ run.models # <<>> /\ run.devices # <<>>
    /\ \E i \in DOMAIN run.df :
          /\ run.df[i].ml_model_name \notin SeqToSet(run.models)
          /\ run.df[i].device_name \notin SeqToSet(run.devices)
          /\ run.df[i].metric_name \in target_metrics
          /\ run.df[i].metric_value = Some(2)
    /\ ModelsIn(run.file[1].models) = SeqToSet(run.models)
    /\ run.new_models # {} /\ run.new_devices # {}

\* The records that name a registered model on a registered device.
KnownOnly(df) ==
    SelectSeq(df, LAMBDA r : /\ r.ml_model_name \in SeqToSet(run.models)
                             /\ r.device_name \in SeqToSet(run.devices))

\* The models list a database conversion of the same registries, taking the
\* models in the same order, produces from the records df: none when it
\* stops.
ModelsFrom(df) ==
    IF run.variant = "db_to_json" /\ df = <<>>
    THEN None
    ELSE Some(Aggregate(run.variant, df, run.out.order,
                        DeviceItems(run.devices)).models)

ScriptsDbUnknownRecordsNoInfluence ==
    (run.variant = "scripts_db_to_json" /\ run.source.ok /\ Converted) =>
        Some(run.out.models) = ModelsFrom(KnownOnly(run.df))

\* discover_new_entries has returned (convert_compatibility.py has no such
\* step).
Detected ==
    /\ run.variant # "convert_compatibility"
    /\ Converted \/ run.raised = "config"

\* C16: the detector returns exactly the model ids of the records minus the
\* registry's model keys and the device ids of the records minus the
\* registry's device keys: no registry key is in either set, every
\* unregistered id of the records is in its set, and for no records both
\* sets are empty.
C16_DetectIsSetDifference ==
    Detected =>
        /\ run.new_models = ObservedModels \ SeqToSet(run.models)
        /\ run.new_devices = ObservedDevices \ SeqToSet(run.devices)
        /\ run.new_models \cap SeqToSet(run.models) = {}
        /\ run.new_devices \cap SeqToSet(run.devices) = {}
        /\ \A i \in DOMAIN run.df :
              /\ run.df[i].ml_model_name \notin SeqToSet(run.models) =>
                    run.df[i].ml_model_name \in run.new_models
              /\ run.df[i].device_name \notin SeqToSet(run.devices) =>
                    run.df[i].device_name \in run.new_devices
        /\ run.df = <<>> => (run.new_models = {} /\ run.new_devices = {})

\* Two records name the same registered model, one of them on an
\* unregistered device: no new model, and that device is the new one.
C16_Witness ==
    /\ Detected
    /\ Len(run.df) = 2
    /\ run.df[1].ml_model_name = run.df[2].ml_model_name
    /\ run.df[1].ml_model_name \in SeqToSet(run.models)
    /\ run.df[1].device_name \in SeqToSet(run.devices)
    /\ run.df[2].device_name \notin SeqToSet(run.devices)
    /\ run.new_models = {}
    /\ run.new_devices = {run.df[2].device_name}

\* a.id <= b.id in Python's order of strings.
IdLeq(a, b) == ~StrLess(b.id, a.id)

\* C17: in the models list of every run, and in the written document,
\* consecutive model entries a, b satisfy a.id <= b.id.
C17_ModelsSortedById ==
    Converted =>
        /\ \A i \in 1..(Len(run.out.models) - 1) :
              IdLeq(run.out.models[i], run.out.models[i + 1])
        /\ run.file # None =>
              \A i \in 1..(Len(run.file[1].models) - 1) :
                 IdLeq(run.file[1].models[i], run.file[1].models[i + 1])

\* The models were iterated with a greater id before a smaller one, and
\* the written document lists them in ascending order of id.
C17_Witness ==
    /\ run.pc = "done"
    /\ run.file # None
    /\ Len(run.out.order) >= 2
    /\ StrLess(create_model_id(run.variant, run.out.order[2]),
               create_model_id(run.variant, run.out.order[1]))
    /\ StrLess(run.file[1].models[1].id, run.file[1].models[2].id)

\* C18: the models list of a run is the one every run over the same records
\* and registries produces, whatever order the set of model names is
\* iterated in.
C18_SameInputsSameModelsList ==
    Converted =>
        \A order \in IterationOrders :
            Aggregate(run.variant, run.df, order, IterationMappings).models
                = run.out.models

\* C19: a run of excel_to_json.py that has read its spreadsheet ends with
\* the document written (unless the extractor or the write of the document
\* itself fails), also when update_config_file fails to read or to write config.py.
C19_RegistryFailureNonFatal ==
    (/\ run.variant = "excel_to_json"
     /\ run.source.ok
     /\ Ended /\ run.raised \notin {"write", "coerce"}) =>
        /\ run.raised = "no"
        /\ run.file # None

\* C21: a run whose source answered, and that neither stopped on an empty
\* DataFrame nor failed in the register step or the write, completes and
\* writes the document, whatever rows the source returned: rows without
\* model or device name and rows whose value is not a number are skipped.
C21_MalformedRowNotFatal ==
    (/\ run.source.ok
     /\ Ended /\ run.pc # "stopped"
     /\ run.raised \notin {"write", "config"}) =>
        /\ run.raised = "no"
        /\ run.pc = "done"
        /\ run.file # None

\* The part of C21 about null names: the rows without model or device name
\* are dropped when the data are loaded, and the run goes on.
NullNamesSkipped ==
    (run.source.ok /\ run.pc # "load") =>
        run.df = SelectSeq(run.source.rows,
                           LAMBDA r : r.ml_model_name # None /\ r.device_name # None)

\* upload_to_s3 has been called (UPLOAD_TO_S3 was 'true') and has returned.
UploadAttempted == run.upload \in {"True", "False"}

\* C22: the upload is attempted only by a run that has written its document
\* and printed its summary without an error, never by a run that stopped
\* early or whose write failed; a run that reaches the upload step with the
\* upload disabled attempts none; and whatever upload_to_s3 returns, the run
\* ends normally with the written file in place.
C22_UploadAfterWrite ==
    /\ UploadAttempted =>
          /\ run.variant = "db_to_json"
          /\ run.file # None /\ run.file[1].models = run.out.models
          /\ run.summary
          /\ run.raised = "no"
          /\ run.pc = "done"
    /\ run.pc \in {"stopped", "raised"} => run.upload = "not reached"
    /\ run.file = None => run.upload = "not reached"
    /\ (run.variant = "db_to_json" /\ run.pc = "done") =>
          run.upload \in {"disabled", "True", "False"}

\* The upload was attempted and failed, and the run ended normally with the
\* document written.
C22_Witness ==
    /\ run.upload = "False"
    /\ run.pc = "done"
    /\ run.raised = "no"
    /\ run.file # None
    /\ Len(run.file[1].models) >= 1

\* C23: when open or json.dump of the output file raises, the error leaves
\* the conversion: the run ends there, no document is in place, the summary
\* is not printed and no upload is attempted.
C23_WriteFailureFatal ==
    run.raised = "write" =>
        /\ run.pc = "raised"
        /\ run.file = None
        /\ ~run.summary
        /\ run.upload = "not reached"

\* db_to_json.py built a models list and the write of the file failed.
C23_Witness ==
    /\ run.variant = "db_to_json"
    /\ run.raised = "write"
    /\ run.pc = "raised"
    /\ run.out.models # <<>>
    /\ ~run.summary

\* ------------------------------------------------------------------------
\* Properties of update_config_file
\* ------------------------------------------------------------------------

\* Reading a mapping of the text as Python reads a dict display: entries
\* separated by commas, each model entry closed by its own brace, up to the
\* closing brace of the mapping. `expect` is "entry" after the header or a
\* comma and "comma" after an entry.
RECURSIVE ReadEntries(_, _, _, _, _)
ReadEntries(content, pos, kind, expect, names) ==
    IF pos > Len(content) THEN [ok |-> FALSE, names |-> names]
    ELSE LET tok == content[pos]
         IN  CASE tok \in {NL, AutoAdded} ->
                    ReadEntries(content, pos + 1, kind, expect, names)
               [] tok = Close -> [ok |-> TRUE, names |-> names]
               [] tok = Comma ->
                    IF expect = "comma"
                    THEN ReadEntries(content, pos + 1, kind, "entry", names)
                    ELSE [ok |-> FALSE, names |-> names]
               [] tok.kind = kind /\ expect = "entry" ->
                    IF kind = "device"
                    THEN ReadEntries(content, pos + 1, kind, "comma",
                                     Append(names, tok.name))
                    ELSE IF pos + 1 <= Len(content) /\ content[pos + 1] = Close
                         THEN ReadEntries(content, pos + 2, kind, "comma",
                                          Append(names, tok.name))
                         ELSE [ok |-> FALSE, names |-> names]
               [] OTHER -> [ok |-> FALSE, names |-> names]

\* The mapping that starts at the header of the given kind.
Mapping(content, header, kind) ==
    IF Find(content, header) = 0 THEN [ok |-> FALSE, names |-> <<>>]
    ELSE ReadEntries(content, Find(content, header) + 1, kind, "entry", <<>>)

DeviceMappingOf(content) == Mapping(content, DeviceHeader.kind, "device")

\* The model mapping of the text, under whichever of its two names.
ModelMappingOf(content) ==
    IF Find(content, ModelHeader.kind) # 0
    THEN Mapping(content, ModelHeader.kind, "model")
    ELSE Mapping(content, ModelsConfigHeader.kind, "model")

\* The entries `after` are those `before`, in their order, and then each of
\* the new names exactly once.
Appended(before, after, new) ==
    /\ after.ok
    /\ Len(after.names) = Len(before.names) + Cardinality(new)
    /\ SubSeq(after.names, 1, Len(before.names)) = before.names
    /\ \A n \in new : \E i \in DOMAIN after.names : after.names[i] = n

\* update_config_file has written config.py.
Patched == run.pc = "patch_done"

\* C20: after update_config_file has written config.py, DEVICE_MAPPING
\* reads as its entries of before followed by each new device once, and the
\* model mapping reads as its entries of before followed by each new model
\* once (so no entry is lost or changed and nothing is inserted inside an
\* entry).
C20_PatchAppendOnly ==
    Patched =>
        /\ Appended(DeviceMappingOf(run.before), DeviceMappingOf(run.config),
                    run.new_devices)
        /\ Appended(ModelMappingOf(run.before), ModelMappingOf(run.config),
                    run.new_models)

\* The half of C20 about the devices, for a DEVICE_MAPPING that is not
\* empty: it holds.
PatchAppendsDevices ==
    (Patched /\ DeviceMappingOf(run.before).names # <<>>) =>
        Appended(DeviceMappingOf(run.before), DeviceMappingOf(run.config),
                 run.new_devices)

\* Every text update_config_file starts from reads well.
ConfigTextsReadWell ==
    /\ DeviceMappingOf(run.before).ok
    /\ ModelMappingOf(run.before).ok

\* The entries of the models list that carry the given status.
WithStatus(models, status) ==
    {<<m, j>> \in (DOMAIN models) \X (DOMAIN run.out.devices) :
        j \in DOMAIN models[m].compatibility
        /\ models[m].compatibility[j].status = status}

\* C27: once the models list is built, total_supported is the number of
\* its entries with status 'Supported', total_not_supported the number with
\* 'Not Supported', and their sum is the number of model entries times the
\* number of devices iterated.
C27_TotalsMatchDocument ==
    Converted =>
        /\ run.out.total_supported =
              Cardinality(WithStatus(run.out.models, "Supported"))
        /\ run.out.total_not_supported =
              Cardinality(WithStatus(run.out.models, "Not Supported"))
        /\ run.out.total_supported + run.out.total_not_supported =
              Len(run.out.models) * Len(run.out.devices)
        /\ \A m \in DOMAIN run.out.models :
              Len(run.out.models[m].compatibility) = Len(run.out.devices)

\* A finished run with two model entries and two devices, where one model
\* has both a 'Supported' and a 'Not Supported' entry.
C27_Witness ==
    /\ run.pc = "done"
    /\ Len(run.out.models) = 2 /\ Len(run.out.devices) = 2
    /\ run.out.total_supported = 1
    /\ run.out.total_not_supported = 3

\* The positions of the non-null records of an entry's pair and metric.
RecordsFor(model, j, metric_name) ==
    Matching(model.display_name, run.out.devices[j], metric_name)

\* C29: in the models list of every run, the value an entry carries for a
\* metric is the one of the last non-null record of its (model, device,
\* metric name) in record order, and the entry has as many keys as there
\* are distinct accepted metric names among the non-null records of its
\* pair, however many records there are.
C29_LastRecordWins ==
    Converted =>
        \A m \in DOMAIN run.out.models :
            \A j \in DOMAIN run.out.models[m].compatibility :
                LET model == run.out.models[m]
                    e == model.compatibility[j]
                    metrics == IF "metrics" \in DOMAIN e THEN e.metrics ELSE <<>>
                    present == {name \in target_metrics :
                                    RecordsFor(model, j, name) # {}}
                IN  /\ Cardinality(DOMAIN metrics) = Cardinality(present)
                    /\ \A name \in DOMAIN metrics :
                          \E last \in RecordsFor(model, j, name) :
                              /\ \A k \in RecordsFor(model, j, name) : k <= last
                              /\ metrics[name] =
                                    CoerceMetric(name, run.df[last].metric_value)

\* Two records of the same model, device and metric name with conflicting
\* values, accuracy_check 2 and then 0: the written entry carries the one
\* key, with the value of the second record.
C29_Witness ==
    /\ run.pc = "done"
    /\ run.file # None
    /\ Len(run.df) = 2
    /\ run.df[1].metric_value = Some(2) /\ run.df[2].metric_value = Some(0)
    /\ \E m \in DOMAIN run.file[1].models :
          \E j \in DOMAIN run.file[1].models[m].compatibility :
             LET e == run.file[1].models[m].compatibility[j]
             IN  /\ RecordsFor(run.file[1].models[m], j, "accuracy_check") = {1, 2}
                 /\ "metrics" \in DOMAIN e
                 /\ e.metrics = [accuracy_check |-> FALSE]

\* ------------------------------------------------------------------------
\* Properties of get_db_connection
\* ------------------------------------------------------------------------
Called(name) == \E i \in DOMAIN run.calls : run.calls[i] = name
TimesCalled(name) == Cardinality({i \in DOMAIN run.calls : run.calls[i] = name})
DbEnded == run.pc \in {"returned", "raised"}
Connected == run.conn # None

\* C26 as stated: when connect succeeds, commit is attempted iff the body
\* finishes without error, rollback is called iff the body or the commit
\* raises, close is called exactly once and last, and the error that
\* leaves is the original one; when the configuration or connect fails,
\* none of commit, rollback and close is called.
C26_ConnectionLifecycleAsStated ==
    DbEnded =>
        /\ Connected =>
              /\ Called("commit") <=> run.env.body = "ok"
              /\ Called("rollback") <=>
                    (run.env.body # "ok" \/ (Called("commit") /\ run.env.commit = "raises"))
              /\ TimesCalled("close") = 1
              /\ run.calls[Len(run.calls)] = "close"
              /\ run.error = run.original
        /\ ~Connected => run.calls = <<>>

\* C26, amended: rollback is called iff the body raises an Exception or
\* the commit raises (a BaseException such as KeyboardInterrupt leaves the
\* body without rollback), and the error that leaves is the original one
\* unless rollback or close itself raises: then it is the error of the last
\* of them that raised. The rest is as stated.
C26_ConnectionLifecycle ==
    DbEnded =>
        /\ Connected =>
              /\ Called("commit") <=> run.env.body = "ok"
              /\ Called("rollback") <=>
                    \/ run.env.body = "Exception"
                    \/ Called("commit") /\ run.env.commit = "raises"
              /\ TimesCalled("commit") <= 1 /\ TimesCalled("rollback") <= 1
              /\ TimesCalled("close") = 1
              /\ run.calls[Len(run.calls)] = "close"
              /\ run.error =
                    IF run.env.close = "raises" THEN Some("close")
                    ELSE IF Called("rollback") /\ run.env.rollback = "raises"
                         THEN Some("rollback")
                         ELSE run.original
              /\ (run.pc = "returned") <=> (run.error = None)
        /\ ~Connected =>
              /\ run.calls = <<>>
              /\ run.pc = "raised"
              /\ run.error = run.original

\* The body raised, the connection was rolled back and closed, and the
\* error of the body left execute_query.
C26_Witness ==
    /\ run.pc = "raised"
    /\ run.calls = <<"connect", "rollback", "close">>
    /\ run.original = Some("body")
    /\ run.error = Some("body")

\* ------------------------------------------------------------------------
\* Properties of create_model_id
\* ------------------------------------------------------------------------

\* No two positions of the list hold the same id.
Distinct(ids) == \A i, j \in DOMAIN ids : i # j => ids[i] # ids[j]

\* C28: any two distinct model names of the registry get distinct ids, from
\* either create_model_id.
C28_DistinctNamesDistinctIds ==
    /\ run.regex_ids # None => Distinct(run.regex_ids[1])
    /\ run.replace_ids # None => Distinct(run.replace_ids[1])

\* Two names get the same id from the chained replace exactly when they are
\* equal after lower-casing and after reading every separator as a dash.
ReplaceCollisions ==
    run.replace_ids # None =>
        \A i, j \in DOMAIN run.names :
            (run.replace_ids[1][i] = run.replace_ids[1][j]) <=>
                /\ Len(run.names[i]) = Len(run.names[j])
                /\ \A k \in DOMAIN run.names[i] :
                      LET a == Lower(run.names[i][k])
                          b == Lower(run.names[j][k])
                      IN  \/ a = b
                          \/ {a, b} \subseteq {".", "_", " ", "-"}

\* C30: the regex create_model_id and the chained-replace create_model_id
\* return the same id for every name of the registry.
C30_ImplementationsAgree ==
    (run.regex_ids # None /\ run.replace_ids # None) =>
        run.regex_ids = run.replace_ids

\* A name has two separators next to each other.
AdjacentSeparators(name) ==
    \E k \in 1..(Len(name) - 1) : IsSeparator(name[k]) /\ IsSeparator(name[k + 1])

\* The two implementations differ exactly on the names with two adjacent
\* separators.
DifferOnAdjacentSeparators ==
    (run.regex_ids # None /\ run.replace_ids # None) =>
        \A i \in DOMAIN run.names :
            (run.regex_ids[1][i] # run.replace_ids[1][i]) <=>
                AdjacentSeparators(run.names[i])

====
